---------------------------- MODULE Spec2Model ----------------------------
(***************************************************************************)
(* HybridDircon (src/systems/trajectory_optimization/hybrid_dircon.cc):    *)
(* the transcription of a multi-mode trajectory optimisation problem.      *)
(*                                                                         *)
(* Decision variables are the integers 0, 1, 2, ... in the order the       *)
(* program creates them; a vector of decision variables is a sequence of   *)
(* them.  C++ indices are 0-based: element k of a std::vector or Eigen     *)
(* vector v is v[k + 1] here.                                              *)
(*                                                                         *)
(* A read past the end of a vector, or of a destroyed vector, is undefined *)
(* behaviour.  Every action that performs one chooses between the outcomes *)
(* a build can produce: the run aborts (an Eigen / Drake assertion, a      *)
(* fault), or the run goes on with whatever the memory holds, written      *)
(* Undef where it is not what the program wrote.                           *)
(***************************************************************************)
EXTENDS Integers, Sequences, FiniteSets, TLC

\* ----------------------------------------------------------------- bounds
MaxModes == 2
MaxKnots == 3
MaxPositions == 2
MaxVelocities == 2
MaxActuators == 2
MaxObjects == 1
MaxLength == 2
MaxForceConstraints == 1
MaxRelative == 1

\* What a read of memory the program never wrote yields.
Undef == 0 - 1

VARIABLES
    \* constructor arguments
    tree,                       \* RigidBodyTree: its three dimensions
    num_time_samples,           \* vector<int>, one entry per mode
    minimum_timestep_size,      \* minimum_timestep.size()
    maximum_timestep_size,      \* maximum_timestep.size()
    constraints,                \* vector<DirconKinematicDataSet*>: object ids
    constraints_size,           \* constraints.size(); entries past it are stray memory
    options,                    \* vector<DirconOptions>
    options_size,               \* options.size(); entries past it are stray memory
    dataset,                    \* the DirconKinematicDataSet objects pointed to
    \* the build
    freed,                      \* what a read of a destroyed vector yields
    \* MathematicalProgram / MultipleShooting
    num_vars,                   \* decision variables created so far
    h_vars, x_vars, u_vars,
    \* HybridDircon members
    num_modes_, mode_lengths_, mode_start_, num_kinematic_constraints_,
    force_vars_, collocation_force_vars_, collocation_slack_vars_,
    offset_vars_, v_post_impact_vars_,
    \* constraints registered with the program, in the order added
    timestep_bounds, timestep_equalities, dynamic_constraints,
    kinematic_constraints, force_constraints,
    \* control
    pc, i, counter,
    \* SetInitialForceTrajectory
    guess,
    \* ReconstructStateTrajectory and the data sets' evaluation cache
    cache, recon,
    \* DoAddRunningCost: the cost terms added, in the order added
    running_cost

inputVars == <<tree, num_time_samples, minimum_timestep_size, maximum_timestep_size,
               constraints, constraints_size, options, options_size, dataset, freed>>
programVars == <<num_vars, h_vars, x_vars, u_vars>>
memberVars == <<num_modes_, mode_lengths_, mode_start_, num_kinematic_constraints_,
                force_vars_, collocation_force_vars_, collocation_slack_vars_,
                offset_vars_, v_post_impact_vars_>>
bindingVars == <<timestep_bounds, timestep_equalities, dynamic_constraints,
                 kinematic_constraints, force_constraints>>
vars == <<inputVars, programVars, memberVars, bindingVars, pc, i, counter,
          guess, cache, recon, running_cost>>

\* ------------------------------------------------------------ vector helpers
RECURSIVE Sum(_)
Sum(s) == IF s = <<>> THEN 0 ELSE Head(s) + Sum(Tail(s))

Max(a, b) == IF a >= b THEN a ELSE b

\* Eigen's v.segment(start, n): n entries from 0-based position start.  An
\* entry outside v is stray memory.
Segment(v, start, n) ==
    [k \in 1..n |-> IF start + k >= 1 /\ start + k <= Len(v) THEN v[start + k] ELSE Undef]

\* Whether v.segment(start, n) stays inside v (Eigen asserts exactly this).
InBounds(v, start, n) == start >= 0 /\ n >= 0 /\ start + n <= Len(v)

\* The variables of a vector, as a set.
VarSet(v) == {v[k] : k \in 1..Len(v)}

\* The outcomes of a step: with undefined behaviour in it the run may abort.
Outcomes(ub) == IF ub THEN {"abort", "proceed"} ELSE {"proceed"}

\* --------------------------------------------------- external collaborators
\* MathematicalProgram::NewContinuousVariables(n, name): n fresh variables.
NewContinuousVariables(first, n) == [k \in 1..n |-> first + k - 1]

\* DirconKinematicDataSet::countConstraints(): the rows of all its objects.
countConstraints(set) == Sum([k \in 1..Len(set) |-> set[k].length])

\* RigidBodyTree dimensions and MultipleShooting's accessors.
num_positions == tree.num_positions
num_velocities == tree.num_velocities
num_inputs == tree.num_actuators
num_states == tree.num_positions + tree.num_velocities
N == Sum(num_time_samples)

\* ------------------------------------------------------------------ inputs
KinematicData == [length : 1..MaxLength, numForceConstraints : 1..MaxForceConstraints]
KinematicSets == UNION {[1..n -> KinematicData] : n \in 0..MaxObjects}
Trees == [num_positions : 1..MaxPositions, num_velocities : 1..MaxVelocities,
          num_actuators : 1..MaxActuators]
OptionValues == [numRelative : 0..MaxRelative]

\* Pointer vectors up to renaming of the objects: entry k points to an object
\* already pointed to, or to the next new one.
RECURSIVE PointerVectors(_)
PointerVectors(n) ==
    IF n = 0 THEN {<<>>}
    ELSE {Append(p, o) : p \in PointerVectors(n - 1), o \in 1..n} \cap
         {q \in [1..n -> 1..n] :
            \A k \in 1..n : \A o \in 1..(q[k] - 1) : \E m \in 1..(k - 1) : q[m] = o}

\* The state before the constructor runs, for M modes and the given sizes of
\* the four per-mode vectors.  A vector shorter than M is followed in memory
\* by entries the caller never wrote: they hold arbitrary values.
InitWith(M, smin, smax, scons, sopt, trees, knots) ==
    /\ tree \in trees
    /\ num_time_samples \in [1..M -> knots]
    /\ minimum_timestep_size = smin
    /\ maximum_timestep_size = smax
    /\ constraints_size = scons
    /\ options_size = sopt
    /\ constraints \in PointerVectors(Max(M, scons))
    /\ dataset \in [VarSet(constraints) -> KinematicSets]
    /\ options \in [1..Max(M, sopt) -> OptionValues]
    /\ \A m \in 1..Len(options) :
          m <= Len(constraints) =>
             options[m].numRelative <= countConstraints(dataset[constraints[m]])
    /\ freed \in {"named", "stale"}
    /\ num_vars = 0
    /\ h_vars = <<>> /\ x_vars = <<>> /\ u_vars = <<>>
    /\ num_modes_ = 0 /\ mode_lengths_ = <<>> /\ mode_start_ = <<>>
    /\ num_kinematic_constraints_ = <<>>
    /\ force_vars_ = <<>> /\ collocation_force_vars_ = <<>>
    /\ collocation_slack_vars_ = <<>> /\ offset_vars_ = <<>>
    /\ v_post_impact_vars_ = <<>>
    /\ timestep_bounds = <<>> /\ timestep_equalities = <<>>
    /\ dynamic_constraints = <<>> /\ kinematic_constraints = <<>>
    /\ force_constraints = <<>>
    /\ pc = "start" /\ i = 0 /\ counter = 0
    /\ guess = <<>>
    /\ cache = [o \in VarSet(constraints) |-> <<>>]
    /\ recon = <<>>
    /\ running_cost = <<>>

\* Well-formed calls: every per-mode vector has one entry per mode.
Init == \E M \in 1..MaxModes : InitWith(M, M, M, M, M, Trees, 1..MaxKnots)

\* Calls whose per-mode vectors may be one entry short or one entry long.  The
\* size checks read neither the tree nor the knot counts: the tree is the
\* smallest one and every mode has MaxKnots knots.
InitSizes ==
    \E M \in 1..MaxModes :
       \E smin \in (M - 1)..(M + 1), smax \in (M - 1)..(M + 1),
          scons \in (M - 1)..(M + 1), sopt \in (M - 1)..(M + 1) :
          InitWith(M, smin, smax, scons, sopt,
                   {[num_positions |-> 1, num_velocities |-> 1, num_actuators |-> 1]},
                   {MaxKnots})

\* ------------------------------------------------------------- constructor
\* The base-class initialiser and the member initialisers (lines 28-31).
\* MultipleShooting creates N-1 timesteps, N states and N inputs.
MultipleShootingInit ==
    /\ pc = "start"
    /\ h_vars' = NewContinuousVariables(0, N - 1)
    /\ x_vars' = NewContinuousVariables(N - 1, num_states * N)
    /\ u_vars' = NewContinuousVariables(N - 1 + num_states * N, num_inputs * N)
    /\ num_vars' = N - 1 + num_states * N + num_inputs * N
    /\ num_modes_' = Len(num_time_samples)
    /\ mode_lengths_' = num_time_samples
    /\ pc' = "asserts"
    /\ UNCHANGED <<inputVars, running_cost, mode_start_, num_kinematic_constraints_, force_vars_,
                   collocation_force_vars_, collocation_slack_vars_, offset_vars_,
                   v_post_impact_vars_, bindingVars, i, counter, guess, cache, recon>>

\* What the three DRAKE_ASSERTs of lines 33-35 test.
SizesAsserted ==
    /\ minimum_timestep_size = num_modes_
    /\ maximum_timestep_size = num_modes_
    /\ constraints_size = num_modes_

\* Lines 33-41.  DRAKE_ASSERT is armed in a debug build and compiled out in a
\* release build: a failed test stops construction only when armed.
CheckSizes ==
    /\ pc = "asserts"
    /\ \E armed \in BOOLEAN :
          pc' = IF armed /\ ~SizesAsserted THEN "error" ELSE "timesteps"
    /\ i' = 0
    /\ counter' = 0
    /\ UNCHANGED <<inputVars, running_cost, programVars, memberVars, bindingVars, guess, cache, recon>>

\* ---------------------------------------------------------------- accessors
\* The 0-based mode m as the index of a TLA+ sequence.
Mode(m) == m + 1

\* mode_lengths_[m] and mode_start_[m].
mode_length(m) == mode_lengths_[Mode(m)]
mode_start(m) == mode_start_[Mode(m)]

\* *constraints_[m]: the data set the m-th pointer points to.
constraints_(m) == dataset[constraints[Mode(m)]]

\* The accessors of hybrid_dircon.h for the per-mode blocks.
num_kinematic_constraints(m) == num_kinematic_constraints_[Mode(m)]
force_vars(m) == force_vars_[Mode(m)]
collocation_force_vars(m) == collocation_force_vars_[Mode(m)]
collocation_slack_vars(m) == collocation_slack_vars_[Mode(m)]
offset_vars(m) == offset_vars_[Mode(m)]

\* MultipleShooting::timestep(index): the one-variable block h_vars()[index].
timestep(index) == Segment(h_vars, index, 1)[1]

\* A read of minimum_timestep[m], maximum_timestep[m], constraints_[m] or
\* options[m] past the end of the vector the caller passed.
StrayTimestepRead(m) == m >= minimum_timestep_size \/ m >= maximum_timestep_size
StrayConstraintsRead(m) == m >= constraints_size
StrayOptionsRead(m) == m >= options_size

\* ------------------------------------------------- lines 43-51: timesteps
\* The index of the timestep that local index j of mode m names (lines 47, 50).
TimestepIndex(m, j) == j

\* Line 47: one bounding box per knot of the mode.
TimestepBounds(m) ==
    [j \in 1..mode_length(m) |->
        [mode |-> m, h |-> timestep(TimestepIndex(m, j - 1))]]

\* Line 50: timestep(j) == timestep(j+1) for j < mode_lengths_[m] - 1.
TimestepEqualities(m) ==
    [j \in 1..(mode_length(m) - 1) |->
        [mode |-> m, a |-> timestep(TimestepIndex(m, j - 1)),
                     b |-> timestep(TimestepIndex(m, j))]]

TimestepReadsInBounds(m) ==
    \A j \in 0..(mode_length(m) - 1) : InBounds(h_vars, TimestepIndex(m, j), 1)

TimestepConstraints ==
    /\ pc = "timesteps"
    /\ mode_start_' = Append(mode_start_, counter)
    /\ \E outcome \in Outcomes(StrayTimestepRead(i) \/ ~TimestepReadsInBounds(i)) :
          IF outcome = "abort"
          THEN /\ pc' = "aborted"
               /\ UNCHANGED <<timestep_bounds, timestep_equalities>>
          ELSE /\ pc' = "allocate"
               /\ timestep_bounds' = timestep_bounds \o TimestepBounds(i)
               /\ timestep_equalities' = timestep_equalities \o TimestepEqualities(i)
    /\ UNCHANGED <<inputVars, running_cost, programVars, num_modes_, mode_lengths_,
                   num_kinematic_constraints_, force_vars_, collocation_force_vars_,
                   collocation_slack_vars_, offset_vars_, v_post_impact_vars_,
                   dynamic_constraints, kinematic_constraints, force_constraints,
                   i, counter, guess, cache, recon>>

\* ------------------------------------------- lines 54-61: decision variables
\* Mutant of ForceVarCount: one force sample per interval instead of per knot.
ForceVarCountPerInterval(m) ==
    countConstraints(constraints_(m)) * (num_time_samples[Mode(m)] - 1)

\* The sizes of the blocks created for mode m.
ForceVarCount(m) == countConstraints(constraints_(m)) * num_time_samples[Mode(m)]
CollocationForceVarCount(m) ==
    countConstraints(constraints_(m)) * (num_time_samples[Mode(m)] - 1)
CollocationSlackVarCount(m) ==
    countConstraints(constraints_(m)) * (num_time_samples[Mode(m)] - 1)
OffsetVarCount(m) == options[Mode(m)].numRelative
PostImpactVarCount == num_velocities

\* Line 61 assigns the member: the block of the previous modes is dropped.
PostImpactAssign(old, new) == new

AllocateVariables ==
    /\ pc = "allocate"
    /\ \E outcome \in Outcomes(StrayConstraintsRead(i) \/ StrayOptionsRead(i)) :
          IF outcome = "abort"
          THEN /\ pc' = "aborted"
               /\ UNCHANGED <<num_vars, num_kinematic_constraints_, force_vars_,
                              collocation_force_vars_, collocation_slack_vars_,
                              offset_vars_, v_post_impact_vars_>>
          ELSE LET f == num_vars
                   lc == f + ForceVarCount(i)
                   vc == lc + CollocationForceVarCount(i)
                   o == vc + CollocationSlackVarCount(i)
                   vp == o + OffsetVarCount(i)
               IN /\ pc' = "dynamic"
                  /\ num_kinematic_constraints_' =
                        Append(num_kinematic_constraints_, countConstraints(constraints_(i)))
                  /\ force_vars_' =
                        Append(force_vars_, NewContinuousVariables(f, ForceVarCount(i)))
                  /\ collocation_force_vars_' =
                        Append(collocation_force_vars_,
                               NewContinuousVariables(lc, CollocationForceVarCount(i)))
                  /\ collocation_slack_vars_' =
                        Append(collocation_slack_vars_,
                               NewContinuousVariables(vc, CollocationSlackVarCount(i)))
                  /\ offset_vars_' =
                        Append(offset_vars_, NewContinuousVariables(o, OffsetVarCount(i)))
                  /\ v_post_impact_vars_' =
                        PostImpactAssign(v_post_impact_vars_,
                                         NewContinuousVariables(vp, PostImpactVarCount))
                  /\ num_vars' = vp + PostImpactVarCount
    /\ UNCHANGED <<inputVars, running_cost, h_vars, x_vars, u_vars, num_modes_, mode_lengths_,
                   mode_start_, bindingVars, i, counter, guess, cache, recon>>

\* ------------------------------------------- lines 149-166: state of a knot
v_post_impact_vars_by_mode(mode) ==
    Segment(v_post_impact_vars_, mode * num_velocities, num_velocities)

\* The variables the function writes into its local vector ret.
state_vars_by_mode(mode, time_index) ==
    IF time_index = 0 /\ mode > 0
    THEN Segment(x_vars, mode_start(mode) + time_index, num_positions)
            \o v_post_impact_vars_by_mode(mode)
    ELSE Segment(x_vars, mode_start(mode) + time_index, num_states)

\* Whether every segment the call takes stays inside its vector.
StateVarsInBounds(mode, time_index) ==
    IF time_index = 0 /\ mode > 0
    THEN /\ InBounds(x_vars, mode_start(mode) + time_index, num_positions)
         /\ InBounds(v_post_impact_vars_, mode * num_velocities, num_velocities)
    ELSE InBounds(x_vars, mode_start(mode) + time_index, num_states)

\* state_vars_by_mode fills a vector it never sized and returns a block of
\* that local vector, which is destroyed on return.  The caller's read of the
\* block is undefined: the run aborts, or it goes on and reads what the build
\* leaves in a destroyed vector, the variables just written ("named") or
\* whatever has replaced them ("stale").
StateRead(mode, time_index) ==
    IF freed = "stale" THEN [k \in 1..num_states |-> Undef]
    ELSE state_vars_by_mode(mode, time_index)

\* ---------------------------------------- lines 63-86: dynamic constraints
\* The binding of the dynamics collocation constraint for interval j of mode m.
DynamicBinding(m, j) ==
    LET time_index == mode_start(m) + j
    IN [mode |-> m, j |-> j,
        h |-> Segment(h_vars, time_index, 1),
        x0 |-> StateRead(m, j),
        x1 |-> StateRead(m, j + 1),
        u |-> Segment(u_vars, time_index * num_inputs, num_inputs * 2),
        l |-> Segment(force_vars(m), j * num_kinematic_constraints(m),
                      num_kinematic_constraints(m) * 2),
        lc |-> Segment(collocation_force_vars(m), j * num_kinematic_constraints(m),
                       num_kinematic_constraints(m)),
        vc |-> Segment(collocation_slack_vars(m), j * num_kinematic_constraints(m),
                       num_kinematic_constraints(m))]

\* Whether every segment taken for interval j of mode m stays inside its vector.
DynamicInBounds(m, j) ==
    LET time_index == mode_start(m) + j
        c == num_kinematic_constraints(m)
    IN /\ InBounds(h_vars, time_index, 1)
       /\ StateVarsInBounds(m, j)
       /\ StateVarsInBounds(m, j + 1)
       /\ InBounds(u_vars, time_index * num_inputs, num_inputs * 2)
       /\ InBounds(force_vars(m), j * c, c * 2)
       /\ InBounds(collocation_force_vars(m), j * c, c)
       /\ InBounds(collocation_slack_vars(m), j * c, c)

\* The intervals of mode m the loop of line 75 visits.
DynamicIntervals(m) == 0..(mode_length(m) - 2)

AddDynamicConstraints ==
    /\ pc = "dynamic"
    /\ \E outcome \in Outcomes(DynamicIntervals(i) # {} \/ StrayConstraintsRead(i)) :
          IF outcome = "abort"
          THEN /\ pc' = "aborted"
               /\ UNCHANGED dynamic_constraints
          ELSE /\ pc' = "kinematic"
               /\ dynamic_constraints' = dynamic_constraints \o
                     [j \in 1..(mode_length(i) - 1) |-> DynamicBinding(i, j - 1)]
    /\ UNCHANGED <<inputVars, running_cost, programVars, memberVars, timestep_bounds,
                   timestep_equalities, kinematic_constraints, force_constraints,
                   i, counter, guess, cache, recon>>

\* -------------------------------------- lines 88-116: kinematic constraints
\* The first control variable bound at the start knot (line 105), at an
\* interior knot (line 95) and at the end knot (line 114).
StartInputIndex(m) == mode_start(m)
InteriorInputIndex(m, j) == (mode_start(m) + j) * num_inputs
EndInputIndex(m) == (mode_start(m) + mode_length(m) - 1) * num_inputs

\* Mutant of KinematicOffset: every mode bound to the offsets of mode 0.
KinematicOffsetOfFirstMode(m) == offset_vars(0)

\* The offset block every kinematic constraint of mode m is bound to.
KinematicOffset(m) == offset_vars(m)

\* Lines 91-98: the interior instance at knot j of mode m.
InteriorBinding(m, j) ==
    [mode |-> m, kind |-> "interior", j |-> j,
     x |-> StateRead(m, j),
     u |-> Segment(u_vars, InteriorInputIndex(m, j), num_inputs),
     l |-> Segment(force_vars(m), j * num_kinematic_constraints(m),
                   num_kinematic_constraints(m)),
     offset |-> KinematicOffset(m)]

\* Lines 101-107: the start instance, at knot 0.
StartBinding(m) ==
    [mode |-> m, kind |-> "start", j |-> 0,
     x |-> StateRead(m, 0),
     u |-> Segment(u_vars, StartInputIndex(m), num_inputs),
     l |-> Segment(force_vars(m), 0, num_kinematic_constraints(m)),
     offset |-> KinematicOffset(m)]

\* Lines 110-116: the end instance, at knot mode_lengths_[m] - 1.
EndBinding(m) ==
    [mode |-> m, kind |-> "end", j |-> mode_length(m) - 1,
     x |-> StateRead(m, mode_length(m) - 1),
     u |-> Segment(u_vars, EndInputIndex(m), num_inputs),
     l |-> Segment(force_vars(m), (mode_length(m) - 1) * num_kinematic_constraints(m),
                   num_kinematic_constraints(m)),
     offset |-> KinematicOffset(m)]

AddKinematicConstraints ==
    /\ pc = "kinematic"
    /\ \E outcome \in Outcomes(TRUE) :
          IF outcome = "abort"
          THEN /\ pc' = "aborted"
               /\ UNCHANGED kinematic_constraints
          ELSE /\ pc' = "force"
               /\ kinematic_constraints' = kinematic_constraints \o
                     [j \in 1..(mode_length(i) - 2) |-> InteriorBinding(i, j)] \o
                     <<StartBinding(i), EndBinding(i)>>
    /\ UNCHANGED <<inputVars, running_cost, programVars, memberVars, timestep_bounds,
                   timestep_equalities, dynamic_constraints, force_constraints,
                   i, counter, guess, cache, recon>>

\* ------------------------------ lines 119-146: force constraints, next mode
RECURSIVE Flatten(_)
Flatten(ss) == IF ss = <<>> THEN <<>> ELSE Head(ss) \o Flatten(Tail(ss))

\* The knots of mode m the loop of line 120 visits.
ForceKnots(m) == 0..(mode_length(m) - 2)

\* start_index when object j's force constraints are added at knot l: line 121
\* sets it to l * c and line 124 adds the object's own length before its use.
ForceStartIndex(m, l, j) ==
    l * num_kinematic_constraints(m) +
    Sum([o \in 1..(j + 1) |-> constraints_(m)[o].length])

\* Line 126, for force constraint k of object j at knot l of mode m.
ForceBinding(m, l, j, k) ==
    [mode |-> m, l |-> l, object |-> j, k |-> k,
     vars |-> Segment(force_vars(m), ForceStartIndex(m, l, j),
                      constraints_(m)[j + 1].length)]

ForceBindings(m) ==
    Flatten([l \in 1..(mode_length(m) - 1) |->
       Flatten([j \in 1..Len(constraints_(m)) |->
          [k \in 1..constraints_(m)[j].numForceConstraints |->
              ForceBinding(m, l - 1, j - 1, k - 1)]])])

ForceInBounds(m) ==
    \A l \in ForceKnots(m) : \A j \in 0..(Len(constraints_(m)) - 1) :
       constraints_(m)[j + 1].numForceConstraints > 0 =>
          InBounds(force_vars(m), ForceStartIndex(m, l, j), constraints_(m)[j + 1].length)

\* Lines 119-146.  The force cost of lines 131-138 adds costs only: it creates
\* no variable and no constraint, and is not part of the state.
AddForceConstraints ==
    /\ pc = "force"
    /\ \E outcome \in Outcomes(StrayConstraintsRead(i) \/ StrayOptionsRead(i)
                                 \/ ~ForceInBounds(i)) :
          IF outcome = "abort"
          THEN /\ pc' = "aborted"
               /\ UNCHANGED <<force_constraints, i, counter>>
          ELSE /\ force_constraints' = force_constraints \o ForceBindings(i)
               /\ counter' = counter + mode_length(i)
               /\ i' = i + 1
               /\ pc' = IF i + 1 < num_modes_ THEN "timesteps" ELSE "done"
    /\ UNCHANGED <<inputVars, running_cost, programVars, memberVars, timestep_bounds,
                   timestep_equalities, dynamic_constraints, kinematic_constraints,
                   guess, cache, recon>>

Constructor ==
    \/ MultipleShootingInit
    \/ CheckSizes
    \/ TimestepConstraints
    \/ AllocateVariables
    \/ AddDynamicConstraints
    \/ AddKinematicConstraints
    \/ AddForceConstraints

\* ------------------------------- lines 224-267: SetInitialForceTrajectory
\* The number of samples the loops of lines 239, 250 and 261 write.
ForceSamples(mode) == N
CollocationSamples(mode) == N - 1

\* The segments of the guess vector the loop writes: sample s goes to
\* segment(num_kinematic_constraints_[mode] * s, num_kinematic_constraints_[mode]).
GuessWrites(mode, samples, empty) ==
    IF empty THEN <<>>
    ELSE [s \in 1..samples |->
            [start |-> num_kinematic_constraints_[Mode(mode)] * (s - 1),
             n |-> num_kinematic_constraints_[Mode(mode)]]]

\* Whether every write stays inside a guess vector of the given size.
WritesInBounds(writes, size) ==
    \A s \in 1..Len(writes) :
        writes[s].start >= 0 /\ writes[s].start + writes[s].n <= size

\* One call, for a mode of the problem.  guess_force, guess_collocation_force
\* and guess_collocation_slack are sized to the mode's blocks (lines 235, 246,
\* 257); a write outside them, like the read of h_vars()[0] of a program with
\* no timestep, is undefined.
SetInitialForceTrajectory ==
    /\ pc = "done"
    /\ \E mode \in 0..(num_modes_ - 1), l_empty \in BOOLEAN, lc_empty \in BOOLEAN,
          vc_empty \in BOOLEAN :
          LET l == GuessWrites(mode, ForceSamples(mode), l_empty)
              lc == GuessWrites(mode, CollocationSamples(mode), lc_empty)
              vc == GuessWrites(mode, CollocationSamples(mode), vc_empty)
              ub == \/ Len(h_vars) = 0
                    \/ ~WritesInBounds(l, Len(force_vars_[Mode(mode)]))
                    \/ ~WritesInBounds(lc, Len(collocation_force_vars_[Mode(mode)]))
                    \/ ~WritesInBounds(vc, Len(collocation_slack_vars_[Mode(mode)]))
          IN \E outcome \in Outcomes(ub) :
                IF outcome = "abort"
                THEN pc' = "aborted" /\ UNCHANGED guess
                ELSE /\ pc' = "guessed"
                     /\ guess' = <<[mode |-> mode,
                                    l_empty |-> l_empty,
                                    lc_empty |-> lc_empty,
                                    vc_empty |-> vc_empty,
                                    force |-> l,
                                    collocation_force |-> lc,
                                    collocation_slack |-> vc,
                                    vars |-> VarSet(force_vars_[Mode(mode)]) \cup
                                             VarSet(collocation_force_vars_[Mode(mode)]) \cup
                                             VarSet(collocation_slack_vars_[Mode(mode)])]>>
    /\ UNCHANGED <<inputVars, running_cost, programVars, memberVars, bindingVars, i, counter,
                   cache, recon>>

\* ------------------------------ lines 199-222: ReconstructStateTrajectory
\* A solved value is named by the variables it is the solution of.
SolvedTime(k) == <<"t", k>>
SolvedState(k) == <<"x", k>>
SolvedInput(k) == <<"u", k>>
SolvedForce(m, j) == <<"l", m, j>>

\* DirconKinematicDataSet::updateData(x, u, l) caches the results for that
\* operating point; getXDot() reads the cached derivative.
updateData(x, u, l) == <<x, u, l>>
getXDot(o) == cache[o]

\* The data set whose cache lines 216 and 218 use for mode m.
ReconDataSet(m) == constraints[Mode(m)]

\* Mutant of ReconKnot: the knot's index within its mode.
ReconKnotWithinMode(m, j) == j

\* The global knot of knot j of mode m (line 211).
ReconKnot(m, j) == mode_start(m) + j

Unset(n) == [k \in 1..n |-> <<>>]

\* Lines 202-207: the vectors are created with N default entries.
ReconstructBegin ==
    /\ pc = "done"
    /\ pc' = "reconstruct"
    /\ recon' = <<[i |-> 0, j |-> 0, phase |-> "update",
                   times_vec |-> Unset(N), states |-> Unset(N), inputs |-> Unset(N),
                   forces |-> Unset(N), derivatives |-> Unset(N)]>>
    /\ UNCHANGED <<inputVars, running_cost, programVars, memberVars, bindingVars, i, counter,
                   guess, cache>>

\* Lines 211-216 for the knot the loops stand at.
ReconstructUpdate ==
    /\ pc = "reconstruct"
    /\ recon[1].phase = "update"
    /\ LET r == recon[1]
           k == ReconKnot(r.i, r.j) + 1
       IN /\ recon' = <<[r EXCEPT !.times_vec[k] = SolvedTime(k - 1),
                                  !.states[k] = SolvedState(k - 1),
                                  !.inputs[k] = SolvedInput(k - 1),
                                  !.forces[k] = SolvedForce(r.i, r.j),
                                  !.phase = "read"]>>
          /\ cache' = [cache EXCEPT ![ReconDataSet(r.i)] =
                          updateData(SolvedState(k - 1), SolvedInput(k - 1),
                                     SolvedForce(r.i, r.j))]
    /\ UNCHANGED <<inputVars, running_cost, programVars, memberVars, bindingVars, pc, i, counter,
                   guess>>

\* Line 218 and the loop increments of lines 209-210.
ReconstructGetXDot ==
    /\ pc = "reconstruct"
    /\ recon[1].phase = "read"
    /\ LET r == recon[1]
           k == ReconKnot(r.i, r.j) + 1
           last_j == r.j + 1 >= mode_length(r.i)
           last_i == r.i + 1 >= num_modes_
       IN recon' = <<[r EXCEPT !.derivatives[k] = getXDot(ReconDataSet(r.i)),
                               !.j = IF last_j THEN 0 ELSE r.j + 1,
                               !.i = IF last_j THEN r.i + 1 ELSE r.i,
                               !.phase = IF last_j /\ last_i THEN "cubic" ELSE "update"]>>
    /\ UNCHANGED <<inputVars, running_cost, programVars, memberVars, bindingVars, pc, i, counter,
                   guess, cache>>

\* Line 221: the cubic trajectory is built from what the vectors hold.
ReconstructCubic ==
    /\ pc = "reconstruct"
    /\ recon[1].phase = "cubic"
    /\ pc' = "reconstructed"
    /\ UNCHANGED <<inputVars, running_cost, programVars, memberVars, bindingVars, i, counter,
                   guess, cache, recon>>

ReconstructStateTrajectory ==
    \/ ReconstructBegin
    \/ ReconstructUpdate
    \/ ReconstructGetXDot
    \/ ReconstructCubic

\* -------------------------------------- lines 168-183: DoAddRunningCost
\* One cost term: quarters/4 times g with the state and input of the given
\* knot substituted for its placeholders (SubstitutePlaceholderVariables),
\* times the sum of the timestep variables at the given positions of h_vars().
RunningCostTerm(quarters, positions, knot) ==
    [knot |-> knot,
     quarters |-> quarters,
     h |-> Flatten([e \in 1..Len(positions) |-> Segment(h_vars, positions[e], 1)])]

\* Line 176: 0.5 * (g * h_vars()(0) / 2) at knot 0.
FirstRunningCost == RunningCostTerm(1, <<0>>, 0)

\* Lines 177-180: g * (h_vars()(i - 1) + h_vars()(i)) / 2 at knot i, for the
\* values of i the loop takes.
InteriorRunningCosts ==
    [k \in 1..(N - 3) |-> RunningCostTerm(2, <<k - 1, k>>, k)]

\* Lines 181-182: 0.5 * (g * h_vars()(N() - 2) / 2) at knot N() - 1.
LastRunningCost == RunningCostTerm(1, <<N - 2>>, N - 1)

\* One call on the constructed program.  With a single knot h_vars() is
\* empty and lines 176 and 182 read outside it.
DoAddRunningCost ==
    /\ pc = "done"
    /\ \E outcome \in Outcomes(~InBounds(h_vars, 0, 1) \/ ~InBounds(h_vars, N - 2, 1)) :
          IF outcome = "abort"
          THEN pc' = "aborted" /\ UNCHANGED running_cost
          ELSE /\ pc' = "costed"
               /\ running_cost' = running_cost \o <<FirstRunningCost>> \o
                                      InteriorRunningCosts \o <<LastRunningCost>>
    /\ UNCHANGED <<inputVars, programVars, memberVars, bindingVars, i, counter,
                   guess, cache, recon>>

\* ------------------------------------------------------------ specifications
\* Construction alone.
Next == Constructor
Spec == Init /\ [][Next]_vars

\* Construction from calls with vectors of any size.
SpecSizes == InitSizes /\ [][Next]_vars

\* Construction, then one call of SetInitialForceTrajectory.
NextGuess == Constructor \/ SetInitialForceTrajectory
SpecGuess == Init /\ [][NextGuess]_vars

\* Construction, then one call of ReconstructStateTrajectory.
NextReconstruct == Constructor \/ ReconstructStateTrajectory
SpecReconstruct == Init /\ [][NextReconstruct]_vars

\* Construction, then one call of DoAddRunningCost.
NextCost == Constructor \/ DoAddRunningCost
SpecCost == Init /\ [][NextCost]_vars

\* ===================================================================== claims
Modes == 0..(num_modes_ - 1)
Knots(m) == 0..(mode_length(m) - 1)

\* The global per-knot state block of knot k: state(k) of MultipleShooting.
StateBlock(k) == [n \in 1..num_states |-> x_vars[k * num_states + n]]
\* Its velocity part.
VelocityPart(k) == {x_vars[k * num_states + n] : n \in (num_positions + 1)..num_states}

\* C1: after construction, for every mode m > 0, state_vars_by_mode(m, 0) is
\* the n_q position variables of the state block of knot mode_start_[m]
\* followed by the n_v post-impact velocity variables of mode m, and that
\* block lies inside the allocated post-impact variables, is disjoint from
\* the post-impact block of every other mode and from the velocity part of
\* every knot's state block.
C1_PostImpactVelocityAtSeam ==
    pc = "done" =>
       \A m \in Modes \ {0} :
          /\ InBounds(v_post_impact_vars_, m * num_velocities, num_velocities)
          /\ Undef \notin VarSet(v_post_impact_vars_by_mode(m))
          /\ state_vars_by_mode(m, 0) =
                [n \in 1..num_positions |-> StateBlock(mode_start(m))[n]]
                   \o v_post_impact_vars_by_mode(m)
          /\ \A m2 \in Modes \ {0, m} :
                VarSet(v_post_impact_vars_by_mode(m)) \cap
                   VarSet(v_post_impact_vars_by_mode(m2)) = {}
          /\ \A k \in 0..(N - 1) :
                VarSet(v_post_impact_vars_by_mode(m)) \cap VelocityPart(k) = {}

\* The equalities added for mode m, as pairs of timestep variables.
EqualitiesOf(m) ==
    {<<timestep_equalities[e].a, timestep_equalities[e].b>> :
        e \in {n \in 1..Len(timestep_equalities) : timestep_equalities[n].mode = m}}

\* C2: after construction, for every mode m the equality constraints added for
\* it pin exactly the pairs of consecutive timesteps among the intervals
\* mode_start_[m] .. mode_start_[m] + N_m - 2 of that mode, and no other pair.
C2_TimestepsEqualWithinMode ==
    pc = "done" =>
       \A m \in Modes :
          EqualitiesOf(m) =
             {<<h_vars[k + 1], h_vars[k + 2]>> :
                 k \in mode_start(m)..(mode_start(m) + mode_length(m) - 3)}

\* C3: for every mode m whose variables have been created, with c rows in its
\* constraint set and N_m knots, the force block has c * N_m variables and the
\* collocation-force and collocation-slack blocks have c * (N_m - 1) each.
C3_BlockSizes ==
    \A m \in 0..(Len(force_vars_) - 1) :
       LET c == countConstraints(dataset[constraints[m + 1]])
           n == num_time_samples[m + 1]
       IN /\ Len(force_vars_[m + 1]) = c * n
          /\ Len(collocation_force_vars_[m + 1]) = c * (n - 1)
          /\ Len(collocation_slack_vars_[m + 1]) = c * (n - 1)

\* C3 witness: construction has finished for two modes, the second with two
\* rows and three knots.
C3_Witness ==
    /\ pc = "done"
    /\ num_modes_ = 2
    /\ countConstraints(dataset[constraints[2]]) = 2
    /\ num_time_samples[2] = 3
    /\ Len(force_vars_[2]) = 6

\* The operating point of knot j of mode m.
OperatingPoint(m, j) ==
    <<SolvedState(mode_start(m) + j), SolvedInput(mode_start(m) + j), SolvedForce(m, j)>>

\* C4: in ReconstructStateTrajectory every derivative stored for a knot is the
\* one cached by updateData for that knot's own solved state, control and
\* force; whenever getXDot is about to be read the cache of the mode's data
\* set holds that knot's operating point; and when the cubic trajectory is
\* built every one of the N knots has its time, state and derivative.
C4_DerivativeOfOwnKnot ==
    Len(recon) = 1 =>
       LET r == recon[1]
       IN /\ \A m \in Modes : \A j \in Knots(m) :
                r.derivatives[mode_start(m) + j + 1] # <<>> =>
                   r.derivatives[mode_start(m) + j + 1] = OperatingPoint(m, j)
          /\ r.phase = "read" =>
                cache[constraints[r.i + 1]] = OperatingPoint(r.i, r.j)
          /\ r.phase = "cubic" =>
                \A k \in 1..N :
                   /\ r.times_vec[k] = SolvedTime(k - 1)
                   /\ r.states[k] = SolvedState(k - 1)
                   /\ r.derivatives[k] # <<>>

\* C4 witness: the trajectory of a two-mode problem whose modes share one data
\* set has been built.
C4_Witness ==
    /\ pc = "reconstructed"
    /\ num_modes_ = 2
    /\ constraints[1] = constraints[2]
    /\ N >= 4
    /\ recon[1].derivatives[N] = OperatingPoint(1, mode_length(1) - 1)

\* C5: every kinematic point constraint added for a mode is bound to that
\* mode's offset block, whose size is options[m].getNumRelative(), and no
\* kinematic constraint of another mode is bound to a variable of that block.
C5_SharedOffset ==
    \A n \in 1..Len(kinematic_constraints) :
       LET kc == kinematic_constraints[n]
       IN /\ kc.offset = offset_vars_[kc.mode + 1]
          /\ Len(kc.offset) = options[kc.mode + 1].numRelative
          /\ \A n2 \in 1..Len(kinematic_constraints) :
                kinematic_constraints[n2].mode # kc.mode =>
                   VarSet(kinematic_constraints[n2].offset) \cap VarSet(kc.offset) = {}

\* C5 witness: two modes with one relative row each, the second with an
\* interior knot, have their start, interior and end instances.
C5_Witness ==
    /\ pc = "done"
    /\ num_modes_ = 2
    /\ options[1].numRelative = 1
    /\ options[2].numRelative = 1
    /\ \A kind \in {"start", "interior", "end"} :
          \E n \in 1..Len(kinematic_constraints) :
             /\ kinematic_constraints[n].mode = 1
             /\ kinematic_constraints[n].kind = kind
             /\ Len(kinematic_constraints[n].offset) = 1

\* C6: when a per-mode vector's size differs from the number of modes,
\* construction gets no further than the size checks, where it ends in the
\* error with no decision variable created.
C6_SizeMismatchRejected ==
    (\/ minimum_timestep_size # Len(num_time_samples)
     \/ maximum_timestep_size # Len(num_time_samples)
     \/ constraints_size # Len(num_time_samples)
     \/ options_size # Len(num_time_samples))
       => /\ pc \in {"start", "asserts", "error"}
          /\ pc = "error" => num_vars = 0

\* The writes of one sample per index 0 .. samples-1 for a mode with c rows.
ExpectedWrites(c, samples) == [s \in 1..samples |-> [start |-> c * (s - 1), n |-> c]]

\* The decision variables created for mode m.
VariablesOfMode(m) ==
    VarSet(force_vars(m)) \cup VarSet(collocation_force_vars(m)) \cup
    VarSet(collocation_slack_vars(m)) \cup VarSet(offset_vars(m))

\* C7: a call of SetInitialForceTrajectory for mode m with non-empty guesses
\* writes one sample per knot of mode m into the force guess and one per
\* interval of mode m into the two collocation guesses (for a mode with no
\* constraint row the samples are empty and their number is not compared),
\* every write inside the guess vector, and only variables of mode m receive
\* a guess.
C7_GuessWithinMode ==
    Len(guess) = 1 =>
       LET g == guess[1]
           c == num_kinematic_constraints(g.mode)
           n == mode_length(g.mode)
       IN /\ (~g.l_empty /\ c > 0) => g.force = ExpectedWrites(c, n)
          /\ (~g.lc_empty /\ c > 0) => g.collocation_force = ExpectedWrites(c, n - 1)
          /\ (~g.vc_empty /\ c > 0) => g.collocation_slack = ExpectedWrites(c, n - 1)
          /\ WritesInBounds(g.force, Len(force_vars(g.mode)))
          /\ WritesInBounds(g.collocation_force, Len(collocation_force_vars(g.mode)))
          /\ WritesInBounds(g.collocation_slack, Len(collocation_slack_vars(g.mode)))
          /\ g.vars \subseteq VariablesOfMode(g.mode)

\* The knots that are not the first knot of a later mode.
PlainKnots == {mj \in UNION {{<<m, j>> : j \in Knots(m)} : m \in Modes} :
                  ~(mj[2] = 0 /\ mj[1] > 0)}

\* C8: after construction, for every knot except the first of a later mode,
\* state_vars_by_mode(m, j) is the state block of the global knot
\* mode_start_[m] + j, and the blocks of two different knots share no variable.
C8_StateBlockOfKnot ==
    pc = "done" =>
       /\ \A mj \in PlainKnots :
             state_vars_by_mode(mj[1], mj[2]) = StateBlock(mode_start(mj[1]) + mj[2])
       /\ \A mj \in PlainKnots : \A mj2 \in PlainKnots \ {mj} :
             VarSet(state_vars_by_mode(mj[1], mj[2])) \cap
                VarSet(state_vars_by_mode(mj2[1], mj2[2])) = {}

\* The positions of the dynamics constraints added for interval j of mode m.
DynamicAt(m, j) ==
    {n \in 1..Len(dynamic_constraints) :
        dynamic_constraints[n].mode = m /\ dynamic_constraints[n].j = j}

\* C9: after construction, for every mode m and every j in 0..N_m-2 there is
\* exactly one dynamics constraint, bound to the timestep of interval
\* mode_start_[m]+j, the states of knots j and j+1 as state_vars_by_mode
\* resolves them, the controls of the two global knots, the forces of knots j
\* and j+1 and the collocation force and slack of interval j; there is no
\* other dynamics constraint, and every index lies inside its block.
C9_DynamicBindings ==
    pc = "done" =>
       /\ \A m \in Modes : \A j \in 0..(mode_length(m) - 2) :
             LET k == mode_start(m) + j
                 c == num_kinematic_constraints(m)
             IN /\ Cardinality(DynamicAt(m, j)) = 1
                /\ \A n \in DynamicAt(m, j) :
                      LET d == dynamic_constraints[n]
                      IN /\ d.h = <<h_vars[k + 1]>>
                         /\ d.x0 = state_vars_by_mode(m, j)
                         /\ d.x1 = state_vars_by_mode(m, j + 1)
                         /\ d.u = [e \in 1..(2 * num_inputs) |-> u_vars[k * num_inputs + e]]
                         /\ d.l = [e \in 1..(2 * c) |-> force_vars(m)[j * c + e]]
                         /\ d.lc = [e \in 1..c |-> collocation_force_vars(m)[j * c + e]]
                         /\ d.vc = [e \in 1..c |-> collocation_slack_vars(m)[j * c + e]]
                /\ DynamicInBounds(m, j)
       /\ Len(dynamic_constraints) = N - num_modes_

\* The positions of the kinematic constraints added for knot j of mode m.
KinematicAt(m, j) ==
    {n \in 1..Len(kinematic_constraints) :
        kinematic_constraints[n].mode = m /\ kinematic_constraints[n].j = j}

\* C10: after construction every knot j of every mode m is bound to exactly
\* one kinematic point constraint (the start instance at knot 0, the end
\* instance at knot N_m-1, the interior instance between), bound to that
\* knot's state block, to the num_inputs control variables of global knot
\* mode_start_[m]+j and to that knot's force sub-block of mode m.
C10_KinematicBindings ==
    pc = "done" =>
       \A m \in Modes : \A j \in Knots(m) :
          LET k == mode_start(m) + j
              c == num_kinematic_constraints(m)
          IN /\ Cardinality(KinematicAt(m, j)) = 1
             /\ \A n \in KinematicAt(m, j) :
                   LET kc == kinematic_constraints[n]
                   IN /\ kc.kind = IF j = 0 THEN "start"
                                    ELSE IF j = mode_length(m) - 1 THEN "end"
                                    ELSE "interior"
                      /\ kc.x = state_vars_by_mode(m, j)
                      /\ kc.u = [e \in 1..num_inputs |-> u_vars[k * num_inputs + e]]
                      /\ kc.l = [e \in 1..c |-> force_vars(m)[j * c + e]]

\* The positions of the force constraints added for force constraint k of
\* object j at knot l of mode m.
ForceAt(m, l, j, k) ==
    {n \in 1..Len(force_constraints) :
        /\ force_constraints[n].mode = m
        /\ force_constraints[n].l = l
        /\ force_constraints[n].object = j
        /\ force_constraints[n].k = k}

\* The first row of object j at knot l within force_vars(m): the rows of the
\* knots before l, then the rows of the objects before j.
RowsOfObject(m, l, j) ==
    l * num_kinematic_constraints(m) +
    Sum([o \in 1..j |-> constraints_(m)[o].length])

\* C11: after construction, for every mode m, every knot l of the mode and
\* every constraint object j of its set, each force constraint k of object j
\* has been added exactly once for knot l, bound to the rows of object j at
\* knot l (start l*c_m plus the lengths of the objects before j, length
\* getLength() of object j), which lie inside force_vars(m).
C11_ForceConstraintsAtEveryKnot ==
    pc = "done" =>
       \A m \in Modes : \A l \in Knots(m) : \A j \in 0..(Len(constraints_(m)) - 1) :
          LET object == constraints_(m)[j + 1]
          IN \A k \in 0..(object.numForceConstraints - 1) :
                /\ Cardinality(ForceAt(m, l, j, k)) = 1
                /\ InBounds(force_vars(m), RowsOfObject(m, l, j), object.length)
                /\ \A n \in ForceAt(m, l, j, k) :
                      force_constraints[n].vars =
                         Segment(force_vars(m), RowsOfObject(m, l, j), object.length)

\* The weight, in quarters, that the cost terms added for a knot put on the
\* timestep variable hv.
RunningCostWeight(knot, hv) ==
    Sum([n \in 1..Len(running_cost) |->
           IF running_cost[n].knot = knot /\ hv \in VarSet(running_cost[n].h)
           THEN running_cost[n].quarters ELSE 0])

\* The weight, in quarters, the trapezoidal rule puts on the timestep of
\* interval e at a knot: one half of each interval the knot bounds.
TrapezoidWeight(knot, e) == IF e = knot - 1 \/ e = knot THEN 2 ELSE 0

\* C12: after DoAddRunningCost(g) on a program of N >= 2 knots the cost terms
\* sum to the trapezoidal rule: every knot has a cost term, knot 0 weighs g by
\* h_0/2, an interior knot k by (h_{k-1} + h_k)/2 and knot N-1 by h_{N-2}/2.
C12_TrapezoidalRunningCost ==
    (pc = "costed" /\ N >= 2) =>
       \A knot \in 0..(N - 1) :
          /\ \E n \in 1..Len(running_cost) : running_cost[n].knot = knot
          /\ \A e \in 0..(N - 2) :
                RunningCostWeight(knot, h_vars[e + 1]) = TrapezoidWeight(knot, e)

====
